---- MODULE Spec2Model ----
(***************************************************************************)
(* Model of the data-orchestration core of the <environment-overview>      *)
(* web component (src/environment-overview.js): context resolution, staged *)
(* loading, lazy tab loading, the refresh timer and teardown.              *)
(*                                                                         *)
(* Every action is one run-to-completion segment of a handler: the code    *)
(* between two awaits.  A fetch in flight is a task in the bag `tasks`;    *)
(* the action that completes it draws the response from a small set.       *)
(* Rendering is modelled only as far as it decides which controls exist.   *)
(* A widget is attached once; re-attachment after teardown is not          *)
(* modelled.                                                               *)
(***************************************************************************)
EXTENDS Naturals, FiniteSets, Sequences, Bags, TLC

VARIABLES
  attached,        \* lifecycle: "constructed" | "connected" | "disconnected"
  clusterId, stackName, clusterName,
  overview, env, resourceStats, varCounts,
  deployments, resources, ingresses, schedule, maintenanceWin,
  costEnabled,
  activeTab, isLoading, error,
  refreshTimer,    \* the handle: "null" | "live" | "cleared" (refers to a cleared interval)
  liveTimers,      \* number of interval timers of this instance that are still running
  tabsRendered,    \* the tab bar (tab buttons and the Refresh button) is in the DOM
  pickerShown,     \* the project/environment picker is in the DOM
  tasks,           \* bag of fetches in flight with their continuation
  fetched,         \* history: the lazy tabs whose fetch set was issued in this session
  emitted          \* history: what the last step emitted (fetches issued, setInterval)

vars == <<attached, clusterId, stackName, clusterName, overview, env,
          resourceStats, varCounts, deployments, resources, ingresses,
          schedule, maintenanceWin, costEnabled, activeTab, isLoading, error,
          refreshTimer, liveTimers, tabsRendered, pickerShown, tasks,
          fetched, emitted>>

cacheVars == <<overview, env, resourceStats, varCounts, deployments,
               resources, ingresses, schedule, maintenanceWin>>

----------------------------------------------------------------------------
(* Bounds of the model *)

MaxLoads == 2        \* loads (with their secondary fetch) in flight at once
MaxLazy  == 2        \* lazy tab fetch sets in flight at once
MaxTicks == 1        \* refresh-tick fetches in flight at once

----------------------------------------------------------------------------
(* Values *)

NULL  == "null"                 \* JS null for scalar fields
UNDEF == "undefined"            \* JS undefined (an id the response did not carry)
NoObj == [absent |-> TRUE]      \* JS null for object-valued fields
DATA  == "data"                 \* some non-empty payload

Truthy(v) == v # NULL /\ v # UNDEF

ClusterIds   == {"abc123"}
StackNames   == {"Acme"}
ClusterNames == {"prod-1"}

\* responses of the overview endpoint: a cluster object (its state, and
\* k8s: its cloud is KUBERNETES or a component version names Kubernetes) or
\* none, and whether inProgressDeployments is non-empty
Cluster(state, k8s) == [clusterState |-> state, k8s |-> k8s]
Overview(cluster, inProgress) == [cluster |-> cluster, inProgress |-> inProgress]

\* a variable-counts payload, and the one the critical fetch returns when it
\* returns one
Counts(v, s) == [variableCount |-> v, secretCount |-> s]
COUNTS == Counts(1, 0)

\* the truth value of a string-valued property, and reading property f of a
\* payload object o: o.f of a string property (undefined when the payload
\* does not carry it), !!o.f of a boolean one and (o.f || 0) of a numeric
\* one; this.env || {} reads like the absent object
ToBoolean(v) == v \notin {NULL, UNDEF, ""}
Has(o, f)   == f \in DOMAIN o
Field(o, f) == IF f \in DOMAIN o THEN o[f] ELSE UNDEF
Flag(o, f)  == f \in DOMAIN o /\ o[f]
Num(o, f)   == IF f \in DOMAIN o THEN o[f] ELSE 0
Overviews == { Overview(Cluster("RUNNING", TRUE), FALSE),
               Overview(Cluster("LAUNCHING", FALSE), FALSE),
               Overview(NoObj, TRUE),
               Overview(NoObj, FALSE) }

Tabs     == {"overview", "releases", "resources", "config", "schedule"}
\* the tabs the user selects: one without and one with lazy data
ClickedTabs == {"overview", "resources"}
LazyTabs == {"releases", "resources", "schedule"}

----------------------------------------------------------------------------
(* Context resolver *)

\* A location, as far as _tryUrlContext looks at it: the two id query
\* parameters, and for each of pathname, hash and search the first
\* /projects/{stack}/environments/{cluster} match in it (NoObj: none).
\* bad names the captured segment whose percent-decoding throws.
NoLoc == [qClusterId |-> NULL, qClusterDashId |-> NULL,
          path |-> NoObj, hash |-> NoObj, search |-> NoObj]
Match(s, c) == [stack |-> s, cluster |-> c, bad |-> "none"]

NoCtx == [clusterId |-> NULL, stackName |-> NULL, clusterName |-> NULL]

\* a decoding that falls back to the raw segment instead of throwing
DecodedLenient(m) == [NoCtx EXCEPT !.stackName = m.stack, !.clusterName = m.cluster]

\* result of decoding the two captured segments of match m into NoCtx;
\* a throw leaves what was assigned before it
Decoded(m) ==
  IF m.bad = "stack" THEN NoCtx
  ELSE IF m.bad = "cluster" THEN [NoCtx EXCEPT !.stackName = m.stack]
  ELSE [NoCtx EXCEPT !.stackName = m.stack, !.clusterName = m.cluster]

\* first match of the pattern in pathname + hash + search
FullMatch(loc) ==
  IF loc.path # NoObj THEN loc.path
  ELSE IF loc.hash # NoObj THEN loc.hash
  ELSE loc.search

_tryUrlContext(loc) ==
  IF Truthy(loc.qClusterId) THEN [NoCtx EXCEPT !.clusterId = loc.qClusterId]
  ELSE IF Truthy(loc.qClusterDashId) THEN [NoCtx EXCEPT !.clusterId = loc.qClusterDashId]
  ELSE IF FullMatch(loc) # NoObj THEN Decoded(FullMatch(loc))
  ELSE IF loc.hash # NoObj THEN Decoded(loc.hash)
  ELSE NoCtx

\* attribute triples <<cluster-id, stack-name, cluster-name>> and locations
\* the widget is attached with
Attrs == { <<"abc123", NULL, NULL>>, <<NULL, "Acme", "prod-1">>, <<NULL, NULL, NULL>> }
Locations == { NoLoc,
               [NoLoc EXCEPT !.qClusterId = "abc123"],
               [NoLoc EXCEPT !.path = Match("Acme", "prod-1")] }

----------------------------------------------------------------------------
(* Tasks: a fetch (or a Promise.all of fetches) in flight and the handler  *)
(* segment that runs when it settles.                                      *)
(*   kind    "load" | "secondary" | "lazy" | "tick"                        *)
(*   pc      load: "resolve" (awaiting _resolveClusterId) or "critical"    *)
(*           (awaiting the Promise.all of the three critical fetches)      *)
(*   tab     lazy: the tab;  ing  lazy/resources: ingress fetch was issued *)
(*   from    load: "connect" | "reload" | "picker"                         *)
(*   stale   history: issued before the latest hard reload began           *)
(*   got     load/critical: the critical fetches that have settled so far, *)
(*           each with its result                                          *)

NoneSettled == [f \in {} |-> NULL]

Task(kind, pc, tab, ing, from) ==
  [kind |-> kind, pc |-> pc, tab |-> tab, ing |-> ing, from |-> from,
   stale |-> FALSE, got |-> NoneSettled]

LoadTask(pc, from)  == Task("load", pc, "none", FALSE, from)
SecondaryTask       == Task("secondary", "none", "none", FALSE, "none")
LazyTask(tab, ing)  == Task("lazy", "none", tab, ing, "none")
TickTask            == Task("tick", "none", "none", FALSE, "none")

One(t) == SetToBag({t})

\* number of tasks of the given kinds in flight
InFlight(kinds) ==
  LET S == {t \in BagToSet(tasks) : t.kind \in kinds}
      RECURSIVE Sum(_)
      Sum(T) == IF T = {} THEN 0
                ELSE LET t == CHOOSE x \in T : TRUE
                     IN CopiesIn(t, tasks) + Sum(T \ {t})
  IN Sum(S)

\* every task in flight becomes one issued before the reload
MarkStale(B) ==
  LET S == {[t EXCEPT !.stale = TRUE] : t \in BagToSet(B)}
  IN [u \in S |-> CopiesIn(u, B) + CopiesIn([u EXCEPT !.stale = FALSE], B)]

----------------------------------------------------------------------------
(* Initial state: the constructor *)

Init ==
  /\ attached = "constructed"
  /\ clusterId = NULL /\ stackName = NULL /\ clusterName = NULL
  /\ overview = NoObj /\ env = NoObj
  /\ resourceStats = NULL /\ varCounts = NoObj
  /\ deployments = NULL /\ resources = NULL /\ ingresses = NULL
  /\ schedule = NULL /\ maintenanceWin = NULL
  /\ costEnabled = FALSE
  /\ activeTab = "overview" /\ isLoading = TRUE /\ error = NULL
  /\ refreshTimer = "null" /\ liveTimers = 0
  /\ tabsRendered = FALSE /\ pickerShown = FALSE
  /\ tasks = EmptyBag
  /\ fetched = {}
  /\ emitted = {}

----------------------------------------------------------------------------
(* Helpers of the handlers *)

activeStates == {"LAUNCHING", "DESTROYING", "SCALING_UP", "SCALING_DOWN"}

\* this.env && this.env.clusterState
StateOf(e) == IF e # NoObj THEN Field(e, "clusterState") ELSE NULL

\* ov && ov.inProgressDeployments && ov.inProgressDeployments.length > 0
InProgress(ov) == ov # NoObj /\ ov.inProgress

\* overview && overview.cluster ? overview.cluster : null
EnvOf(ov) == IF ov # NoObj /\ ov.cluster # NoObj THEN ov.cluster ELSE NoObj

\* fresh.cluster || this.env
EnvAfterTick(fresh, e) == IF fresh.cluster # NoObj THEN fresh.cluster ELSE e

_hasKubernetes(e) == e # NoObj /\ (e.k8s \/ Flag(e, "hasK8sCredentials"))

\* clearInterval(handle): the handle's target and the running timers afterwards
ClearInterval(rt, lt) ==
  [rt |-> IF rt = "live" THEN "cleared" ELSE rt,
   lt |-> IF rt = "live" THEN lt - 1 ELSE lt]

\* a start that does not cancel the timer already running
StartTimerNoClear(rt, lt) ==
  [rt |-> "live", lt |-> lt + 1]

\* if (this.refreshTimer) clearInterval(this.refreshTimer);
\* this.refreshTimer = setInterval(...)
StartTimer(rt, lt) ==
  [rt |-> "live", lt |-> ClearInterval(rt, lt).lt + 1]

\* a start condition that looks at the cluster state only
ShouldStartStateOnly(e, ov) == StateOf(e) \in activeStates

\* the condition of _maybeStartRefresh, on this.env and this.overview
ShouldStart(e, ov) == InProgress(ov) \/ StateOf(e) \in activeStates

\* _maybeStartRefresh: the handle and the running timers afterwards, and
\* whether setInterval was called
_maybeStartRefresh(e, ov, rt, lt) ==
  IF ShouldStart(e, ov)
  THEN [rt |-> StartTimer(rt, lt).rt, lt |-> StartTimer(rt, lt).lt, started |-> TRUE]
  ELSE [rt |-> rt, lt |-> lt, started |-> FALSE]

\* the condition under which _refreshOverview stops the timer
ShouldStop(e, fresh) == ~InProgress(fresh) /\ StateOf(e) \notin activeStates

\* the end of _refreshOverview: the handle and the running timers afterwards
StopIfIdle(e, fresh, rt, lt) ==
  IF ShouldStop(e, fresh)
  THEN [rt |-> "null", lt |-> ClearInterval(rt, lt).lt]
  ELSE [rt |-> rt, lt |-> lt]

\* disconnectedCallback: the handle and the running timers afterwards
Teardown(rt, lt) == IF rt # "null" THEN ClearInterval(rt, lt) ELSE [rt |-> rt, lt |-> lt]

\* _renderAll: the boot error replaces the header and nothing else is drawn
\* when an error is recorded and there is no env; otherwise the tab bar is drawn
BootError(err, e) == err # NULL /\ e = NoObj
_renderAll(err, e) == tabsRendered' = (tabsRendered \/ ~BootError(err, e))

CriticalFetches == {"fetch:overview", "fetch:stats", "fetch:vars"}

\* a load that issues the cost-capability fetch along with its first fetch
LoadStartWithCost(cid, from) ==
  IF Truthy(cid)
  THEN [task |-> LoadTask("critical", from),
        out |-> CriticalFetches \cup {"fetch:cost"}]
  ELSE [task |-> LoadTask("resolve", from),
        out |-> {"fetch:resolve", "fetch:cost"}]

\* _loadData up to its first pending fetch: with an id _resolveClusterId
\* returns at once and the three critical fetches are issued
LoadStart(cid, from) ==
  IF Truthy(cid)
  THEN [task |-> LoadTask("critical", from), out |-> CriticalFetches]
  ELSE [task |-> LoadTask("resolve", from),  out |-> {"fetch:resolve"}]

\* a reset that leaves isLoading as it is
ResetDataKeepLoading ==
  /\ overview' = NoObj /\ env' = NoObj
  /\ resourceStats' = NULL /\ varCounts' = NoObj
  /\ deployments' = NULL /\ resources' = NULL /\ ingresses' = NULL
  /\ schedule' = NULL /\ maintenanceWin' = NULL
  /\ UNCHANGED isLoading

\* a reset that forgets the ingress rules
ResetDataKeepIngresses ==
  /\ overview' = NoObj /\ env' = NoObj
  /\ resourceStats' = NULL /\ varCounts' = NoObj
  /\ deployments' = NULL /\ resources' = NULL /\ UNCHANGED ingresses
  /\ schedule' = NULL /\ maintenanceWin' = NULL
  /\ isLoading' = TRUE

\* the fields _hardRefresh and the picker's button reset
ResetData ==
  /\ overview' = NoObj /\ env' = NoObj
  /\ resourceStats' = NULL /\ varCounts' = NoObj
  /\ deployments' = NULL /\ resources' = NULL /\ ingresses' = NULL
  /\ schedule' = NULL /\ maintenanceWin' = NULL
  /\ isLoading' = TRUE

----------------------------------------------------------------------------
(* Derived views: what the renderers compute from the loaded data *)

\* names every object literal inherits from Object.prototype: table[key]
\* finds them although the table does not list them
ObjectPrototype ==
  {"constructor", "toString", "valueOf", "hasOwnProperty", "__proto__"}

\* env.clusterState || 'UNKNOWN'
HeaderState(e) ==
  LET s == Field(e, "clusterState") IN IF ToBoolean(s) THEN s ELSE "UNKNOWN"

\* the classification table: label and pulse of each descriptor
Descriptor(label, pulse) == [label |-> label, pulse |-> pulse]

\* a classification table in which no state pulses
stateConfMapSteady ==
  [RUNNING           |-> Descriptor("Running", FALSE),
   LAUNCHING         |-> Descriptor("Launching", FALSE),
   SCALING_UP        |-> Descriptor("Scaling Up", FALSE),
   SCALING_DOWN      |-> Descriptor("Scaling Down", FALSE),
   DESTROYING        |-> Descriptor("Destroying", FALSE),
   STOPPED           |-> Descriptor("Stopped", FALSE),
   SCALE_DOWN        |-> Descriptor("Scaled Down", FALSE),
   LAUNCH_FAILED     |-> Descriptor("Launch Failed", FALSE),
   DESTROY_FAILED    |-> Descriptor("Destroy Failed", FALSE),
   SCALE_DOWN_FAILED |-> Descriptor("Scale-Down Failed", FALSE),
   SCALE_UP_FAILED   |-> Descriptor("Scale-Up Failed", FALSE),
   UNKNOWN           |-> Descriptor("Unknown", FALSE)]

stateConfMap ==
  [RUNNING           |-> Descriptor("Running", FALSE),
   LAUNCHING         |-> Descriptor("Launching", TRUE),
   SCALING_UP        |-> Descriptor("Scaling Up", TRUE),
   SCALING_DOWN      |-> Descriptor("Scaling Down", TRUE),
   DESTROYING        |-> Descriptor("Destroying", TRUE),
   STOPPED           |-> Descriptor("Stopped", FALSE),
   SCALE_DOWN        |-> Descriptor("Scaled Down", FALSE),
   LAUNCH_FAILED     |-> Descriptor("Launch Failed", FALSE),
   DESTROY_FAILED    |-> Descriptor("Destroy Failed", FALSE),
   SCALE_DOWN_FAILED |-> Descriptor("Scale-Down Failed", FALSE),
   SCALE_UP_FAILED   |-> Descriptor("Scale-Up Failed", FALSE),
   UNKNOWN           |-> Descriptor("Unknown", FALSE)]

\* what map[key] gives for an inherited name: a member of Object.prototype,
\* which is truthy and has none of a descriptor's properties
Inherited(key) == [inherited |-> key]

\* map[state] || map.UNKNOWN
_stateConf(state) ==
  IF state \in DOMAIN stateConfMap THEN stateConfMap[state]
  ELSE IF state \in ObjectPrototype THEN Inherited(state)
  ELSE stateConfMap.UNKNOWN

\* the header's table of actions (the data-action of each button, in order)
headerMaps ==
  [STOPPED           |-> <<"launch", "plan">>,
   RUNNING           |-> <<"trigger-release", "trigger-hotfix", "scale-down",
                           "destroy">>,
   SCALE_DOWN        |-> <<"scale-up", "trigger-release", "destroy">>,
   LAUNCH_FAILED     |-> <<"launch", "plan">>,
   DESTROY_FAILED    |-> <<"destroy">>,
   SCALE_UP_FAILED   |-> <<"scale-up">>,
   SCALE_DOWN_FAILED |-> <<"scale-down">>,
   LAUNCHING         |-> <<>>,
   DESTROYING        |-> <<>>,
   SCALING_UP        |-> <<>>,
   SCALING_DOWN      |-> <<>>]

CTAs(seq) == [raised |-> FALSE, ctas |-> seq]

\* a fallback that treats an empty action list like a missing one
_headerCTAsEmptyFalsy(state, e) ==
  IF state \in DOMAIN headerMaps /\ headerMaps[state] # <<>>
  THEN CTAs(headerMaps[state])
  ELSE IF state \in ObjectPrototype THEN [raised |-> TRUE, ctas |-> <<>>]
  ELSE CTAs(headerMaps.STOPPED)

\* maps[state] || maps.STOPPED, then ctas.map(...): an empty list is truthy;
\* an inherited name gives a value without map and the call raises
_headerCTAs(state, e) ==
  IF state \in DOMAIN headerMaps THEN CTAs(headerMaps[state])
  ELSE IF state \in ObjectPrototype THEN [raised |-> TRUE, ctas |-> <<>>]
  ELSE CTAs(headerMaps.STOPPED)

\* _renderHeader raises
HeaderRaises(e) == _headerCTAs(HeaderState(e), e).raised

\* Math.round(n / d) of naturals n and d > 0: the floor of n/d + 1/2
MathTrunc(n, d) == n \div d
MathRound(n, d) == (2 * n + d) \div (2 * d)

\* (this.overview && this.overview.deploymentsStats) || {}
EmptyObj == << >>
StatsOf(ov) ==
  IF ov # NoObj /\ Has(ov, "deploymentsStats") THEN ov.deploymentsStats
  ELSE EmptyObj

depTotal(ds) ==
  Num(ds, "successReleases") + Num(ds, "failedReleases")
    + Num(ds, "noChangeReleases")

\* the deploy-health figure of _renderCards: a percentage or null
NoData == [nodata |-> TRUE]
Pct(n) == [pct |-> n]
succPct(ov) ==
  LET ds == StatsOf(ov)
  IN IF depTotal(ds) > 0
     THEN Pct(MathRound(Num(ds, "successReleases") * 100, depTotal(ds)))
     ELSE NoData

\* !(env.stack && env.stack.projectTypeId)
isLegacy(e) == ~(Has(e, "stack") /\ ToBoolean(Field(e.stack, "projectTypeId")))

\* the overview tab shows the launch readiness card
isNeverLaunched(e, ov) ==
  \/ /\ HeaderState(e) = "STOPPED"
     /\ ov # NoObj /\ Flag(StatsOf(ov), "isFirstRelease")
  \/ HeaderState(e) = "STOPPED" /\ ov = NoObj

hasVars(vc) ==
  vc # NoObj /\ Num(vc, "variableCount") + Num(vc, "secretCount") > 0

Check(label, ok, skip) == [label |-> label, ok |-> ok, skip |-> skip]
Shown(c) == ~c.skip

\* a checklist that keeps the credentials check when Kubernetes is not
\* detected
LegacyChecksNoSkip(e, vc) ==
  << Check("Environment configured", Flag(e, "configured"), FALSE),
     Check("Cloud account linked", ToBoolean(Field(e, "cloudAccountId")), FALSE),
     Check("Kubernetes credentials", Flag(e, "hasK8sCredentials"), FALSE),
     Check("Variables populated", hasVars(vc), FALSE) >>

\* the checks of the legacy checklist after .filter(c => !c.skip)
LegacyChecks(e, vc) ==
  SelectSeq(
    << Check("Environment configured", Flag(e, "configured"), FALSE),
       Check("Cloud account linked", ToBoolean(Field(e, "cloudAccountId")), FALSE),
       Check("Kubernetes credentials",
             ~_hasKubernetes(e) \/ Flag(e, "hasK8sCredentials"),
             ~_hasKubernetes(e)),
       Check("Variables populated", hasVars(vc), FALSE) >>,
    Shown)

\* checks.every(c => c.ok)
allOk(checks) == \A i \in 1..Len(checks) : checks[i].ok

----------------------------------------------------------------------------
(* Lifecycle *)

connectedCallback(attrs, loc) ==
  /\ attached = "constructed"
  /\ attached' = "connected"
  /\ LET ctx == _tryUrlContext(loc)
         byAttr == Truthy(attrs[1]) \/ (Truthy(attrs[2]) /\ Truthy(attrs[3]))
         byUrlId == ~byAttr /\ Truthy(ctx.clusterId)
         byUrlNames == ~byAttr /\ ~byUrlId /\ Truthy(ctx.stackName) /\ Truthy(ctx.clusterName)
         cid == IF byUrlId THEN ctx.clusterId ELSE attrs[1]
         ld  == LoadStart(cid, "connect")
     IN /\ clusterId' = cid
        /\ stackName' = IF byUrlNames THEN ctx.stackName ELSE attrs[2]
        /\ clusterName' = IF byUrlNames THEN ctx.clusterName ELSE attrs[3]
        /\ IF byAttr \/ byUrlId \/ byUrlNames
           THEN /\ tasks' = tasks (+) One(ld.task)
                /\ pickerShown' = FALSE
                /\ emitted' = ld.out
           ELSE /\ tasks' = tasks
                /\ pickerShown' = TRUE
                /\ emitted' = {"fetch:stacks"}
  /\ UNCHANGED <<cacheVars, costEnabled, activeTab, isLoading, error,
                 refreshTimer, liveTimers, tabsRendered, fetched>>

disconnectedCallback ==
  /\ attached = "connected"
  /\ attached' = "disconnected"
  /\ LET c == Teardown(refreshTimer, liveTimers)
     IN /\ liveTimers' = c.lt
        /\ refreshTimer' = c.rt
  /\ emitted' = {}
  /\ UNCHANGED <<clusterId, stackName, clusterName, cacheVars, costEnabled,
                 activeTab, isLoading, error, tabsRendered, pickerShown,
                 tasks, fetched>>

\* the picker's "View Environment" button with environment cid selected
pickerGo(cid) ==
  /\ attached = "connected" /\ pickerShown
  /\ clusterId' = cid
  /\ ResetData
  /\ pickerShown' = FALSE
  /\ LET ld == LoadStart(cid, "picker")
     IN /\ tasks' = MarkStale(tasks) (+) One(ld.task)
        /\ emitted' = ld.out
  /\ fetched' = {}
  /\ UNCHANGED <<attached, stackName, clusterName, costEnabled, activeTab,
                 error, refreshTimer, liveTimers, tabsRendered>>

----------------------------------------------------------------------------
(* Gateway *)

\* What a fetch of the gateway ends in: the fetch promise rejects
\* ("rejected"), the response is not ok ("not-ok"), the response is ok and
\* its body does not parse ("unparsable"), or it is ok with the parsed body.
Outcomes == {"rejected", "not-ok", "unparsable", "ok"}
ApiResponses(bodies) == {[outcome |-> o, body |-> b] : o \in Outcomes, b \in bodies}

\* an exception propagating to the caller
RAISED == [raised |-> TRUE]

\* a gateway without the try/catch
_apiNoCatch(resp) ==
  IF resp.outcome = "rejected" THEN RAISED
  ELSE IF resp.outcome = "not-ok" THEN NoObj
  ELSE IF resp.outcome = "unparsable" THEN RAISED
  ELSE resp.body

\* _api: what the caller's await gives
_api(resp) ==
  IF resp.outcome = "rejected" THEN NoObj
  ELSE IF resp.outcome = "not-ok" THEN NoObj
  ELSE IF resp.outcome = "unparsable" THEN NoObj
  ELSE resp.body

----------------------------------------------------------------------------
(* Staged loader *)

\* a failed resolution whose catch block leaves the loading flag set
resolveDoneKeepsLoading(t, r) ==
  /\ BagIn(t, tasks) /\ t.kind = "load" /\ t.pc = "resolve"
  /\ IF r = "fail"
     THEN /\ error' = "Could not resolve cluster ID from name"
          /\ _renderAll(error', env)
          /\ tasks' = tasks (-) One(t)
          /\ emitted' = {}
          /\ UNCHANGED <<clusterId, isLoading>>
     ELSE /\ clusterId' = r
          /\ tasks' = (tasks (-) One(t)) (+) One([t EXCEPT !.pc = "critical"])
          /\ emitted' = CriticalFetches
          /\ UNCHANGED <<isLoading, error, tabsRendered>>
  /\ UNCHANGED <<attached, stackName, clusterName, cacheVars, costEnabled,
                 activeTab, refreshTimer, liveTimers, pickerShown, fetched>>

\* _resolveClusterId settles: r is "fail" (the fetch rejects, the response is
\* not ok or its body does not parse), UNDEF (a body without id and
\* clusterId) or the id
resolveDone(t, r) ==
  /\ BagIn(t, tasks) /\ t.kind = "load" /\ t.pc = "resolve"
  /\ IF r = "fail"
     THEN /\ isLoading' = FALSE
          /\ error' = "Could not resolve cluster ID from name"
          /\ _renderAll(error', env)
          /\ tasks' = tasks (-) One(t)
          /\ emitted' = {}
          /\ UNCHANGED clusterId
     ELSE /\ clusterId' = r
          /\ tasks' = (tasks (-) One(t)) (+) One([t EXCEPT !.pc = "critical"])
          /\ emitted' = CriticalFetches
          /\ UNCHANGED <<isLoading, error, tabsRendered>>
  /\ UNCHANGED <<attached, stackName, clusterName, cacheVars, costEnabled,
                 activeTab, refreshTimer, liveTimers, pickerShown, fetched>>

\* the three critical fetches have settled with results ov, st, vc (each may
\* be absent): the rest of _loadData's try block
loadDone(t, ov, st, vc) ==
  /\ BagIn(t, tasks) /\ t.kind = "load" /\ t.pc = "critical"
  /\ overview' = ov
  /\ env' = EnvOf(ov)
  /\ resourceStats' = st
  /\ varCounts' = vc
  /\ isLoading' = FALSE
  /\ IF HeaderRaises(env')
     THEN \* _renderAll raises in _renderHeader; the catch block records the
          \* message and its own _renderAll raises in turn
          /\ error' = "ctas.map is not a function"
          /\ tasks' = tasks (-) One(t)
          /\ emitted' = {}
          /\ UNCHANGED <<tabsRendered, refreshTimer, liveTimers>>
     ELSE /\ _renderAll(error, env')
          /\ tasks' = (tasks (-) One(t)) (+) One(SecondaryTask)
          /\ LET tm == _maybeStartRefresh(env', overview', refreshTimer, liveTimers)
             IN /\ refreshTimer' = tm.rt
                /\ liveTimers' = tm.lt
                /\ emitted' = {"fetch:cost"} \cup
                              (IF tm.started THEN {"setInterval"} ELSE {})
          /\ UNCHANGED error
  /\ UNCHANGED <<attached, clusterId, stackName, clusterName, deployments,
                 resources, ingresses, schedule, maintenanceWin, costEnabled,
                 activeTab, pickerShown, fetched>>

\* one of the three critical fetches of load t settles with result r; the
\* Promise.all of _loadData is still pending
criticalSettle(t, f, r) ==
  /\ BagIn(t, tasks) /\ t.kind = "load" /\ t.pc = "critical"
  /\ f \in CriticalFetches \ DOMAIN t.got
  /\ tasks' = (tasks (-) One(t)) (+)
                One([t EXCEPT !.got = [g \in DOMAIN t.got \cup {f} |->
                                         IF g = f THEN r ELSE t.got[g]]])
  /\ emitted' = {}
  /\ UNCHANGED <<attached, clusterId, stackName, clusterName, cacheVars,
                 costEnabled, activeTab, isLoading, error, refreshTimer,
                 liveTimers, tabsRendered, pickerShown, fetched>>

\* a fan-in that does not wait for the last fetch
AnySettled(t) == DOMAIN t.got # {}

\* Promise.all: every critical fetch of load t has settled
AllSettled(t) == DOMAIN t.got = CriticalFetches

\* the value the destructuring of the Promise.all result gives for fetch f
Got(t, f, nul) == IF f \in DOMAIN t.got THEN t.got[f] ELSE nul

\* the Promise.all of load t fulfils: the rest of _loadData's try block
\* runs on the settled results
criticalDone(t) ==
  /\ BagIn(t, tasks) /\ t.kind = "load" /\ t.pc = "critical"
  /\ AllSettled(t)
  /\ loadDone(t, Got(t, "fetch:overview", NoObj), Got(t, "fetch:stats", NULL),
                 Got(t, "fetch:vars", NoObj))

\* _loadSecondary after its fetch: cost is whether the response says enabled
secondaryDone(t, cost) ==
  /\ BagIn(t, tasks) /\ t.kind = "secondary"
  /\ costEnabled' = cost
  /\ tasks' = tasks (-) One(t)
  /\ emitted' = {}
  /\ UNCHANGED <<attached, clusterId, stackName, clusterName, cacheVars,
                 activeTab, isLoading, error, refreshTimer, liveTimers,
                 tabsRendered, pickerShown, fetched>>

_hardRefresh ==
  /\ attached = "connected" /\ tabsRendered
  /\ InFlight({"load", "secondary"}) < MaxLoads
  /\ ResetData
  /\ LET ld == LoadStart(clusterId, "reload")
     IN /\ tasks' = MarkStale(tasks) (+) One(ld.task)
        /\ emitted' = ld.out
  /\ fetched' = {}
  /\ UNCHANGED <<attached, clusterId, stackName, clusterName, costEnabled,
                 activeTab, error, refreshTimer, liveTimers, tabsRendered,
                 pickerShown>>

----------------------------------------------------------------------------
(* Lazy tab data *)

\* the cache entry _loadTabData tests for a tab
Entry(tab) ==
  CASE tab = "releases"  -> deployments
    [] tab = "resources" -> resources
    [] tab = "schedule"  -> schedule
    [] OTHER -> DATA

\* a _loadTabData that ignores the cache entry
IssuesAlways(tab) == tab \in LazyTabs

\* _loadTabData issues the tab's fetch set
Issues(tab) == tab \in LazyTabs /\ Entry(tab) = NULL

LazyFetches(tab, ing) ==
  CASE tab = "releases"  -> {"fetch:releases"}
    [] tab = "resources" -> {"fetch:resources"} \cup (IF ing THEN {"fetch:ingress"} ELSE {})
    [] tab = "schedule"  -> {"fetch:schedule", "fetch:maintenance"}
    [] OTHER -> {}

_switchTab(tab) ==
  /\ attached = "connected" /\ tabsRendered
  /\ activeTab' = tab
  /\ IF Issues(tab)
     THEN /\ InFlight({"lazy"}) < MaxLazy
          /\ LET ing == tab = "resources" /\ _hasKubernetes(env)
             IN /\ tasks' = tasks (+) One(LazyTask(tab, ing))
                /\ emitted' = LazyFetches(tab, ing)
          /\ fetched' = fetched \cup {tab}
     ELSE /\ emitted' = {}
          /\ UNCHANGED <<tasks, fetched>>
  /\ UNCHANGED <<attached, clusterId, stackName, clusterName, cacheVars,
                 costEnabled, isLoading, error, refreshTimer, liveTimers,
                 tabsRendered, pickerShown>>

\* the tab's fetch set has settled with results a and b (b: ingress rules
\* or maintenance window); a skipped ingress fetch is Promise.resolve(null)
lazyDone(t, a, b) ==
  /\ BagIn(t, tasks) /\ t.kind = "lazy"
  /\ CASE t.tab = "releases" ->
            /\ deployments' = a
            /\ UNCHANGED <<resources, ingresses, schedule, maintenanceWin>>
       [] t.tab = "resources" ->
            /\ resources' = a
            /\ ingresses' = IF t.ing THEN b ELSE NULL
            /\ UNCHANGED <<deployments, schedule, maintenanceWin>>
       [] t.tab = "schedule" ->
            /\ schedule' = a
            /\ maintenanceWin' = b
            /\ UNCHANGED <<deployments, resources, ingresses>>
  /\ tasks' = tasks (-) One(t)
  /\ emitted' = {}
  /\ UNCHANGED <<attached, clusterId, stackName, clusterName, overview, env,
                 resourceStats, varCounts, costEnabled, activeTab, isLoading,
                 error, refreshTimer, liveTimers, tabsRendered, pickerShown,
                 fetched>>

----------------------------------------------------------------------------
(* Refresh scheduler *)

\* a tick that fetches the statistics and the counts along with the overview
timerFireAll ==
  /\ liveTimers > 0
  /\ InFlight({"tick"}) < MaxTicks
  /\ tasks' = tasks (+) One(TickTask)
  /\ emitted' = CriticalFetches
  /\ UNCHANGED <<attached, clusterId, stackName, clusterName, cacheVars,
                 costEnabled, activeTab, isLoading, error, refreshTimer,
                 liveTimers, tabsRendered, pickerShown, fetched>>

\* a tick continuation without the `if (!fresh) return` guard: an absent
\* response is stored as the overview and the timer is cleared
tickDoneNoGuard(t, fresh) ==
  /\ BagIn(t, tasks) /\ t.kind = "tick"
  /\ tasks' = tasks (-) One(t)
  /\ emitted' = {}
  /\ overview' = fresh
  /\ env' = (IF fresh = NoObj THEN env ELSE EnvAfterTick(fresh, env))
  /\ IF fresh = NoObj
     THEN /\ liveTimers' = ClearInterval(refreshTimer, liveTimers)
          /\ refreshTimer' = NULL
     ELSE IF HeaderRaises(env')
     THEN UNCHANGED <<refreshTimer, liveTimers>>
     ELSE LET tm == StopIfIdle(env', fresh, refreshTimer, liveTimers)
          IN /\ liveTimers' = tm.lt
             /\ refreshTimer' = tm.rt
  /\ UNCHANGED <<attached, clusterId, stackName, clusterName, resourceStats,
                 varCounts, deployments, resources, ingresses, schedule,
                 maintenanceWin, costEnabled, activeTab, isLoading, error,
                 tabsRendered, pickerShown, fetched>>

\* a running interval timer fires: _refreshOverview issues its fetch
timerFire ==
  /\ liveTimers > 0
  /\ InFlight({"tick"}) < MaxTicks
  /\ tasks' = tasks (+) One(TickTask)
  /\ emitted' = {"fetch:overview"}
  /\ UNCHANGED <<attached, clusterId, stackName, clusterName, cacheVars,
                 costEnabled, activeTab, isLoading, error, refreshTimer,
                 liveTimers, tabsRendered, pickerShown, fetched>>

\* _refreshOverview after its fetch, with result fresh
tickDone(t, fresh) ==
  /\ BagIn(t, tasks) /\ t.kind = "tick"
  /\ tasks' = tasks (-) One(t)
  /\ emitted' = {}
  /\ IF fresh = NoObj
     THEN UNCHANGED <<overview, env, refreshTimer, liveTimers>>
     ELSE /\ overview' = fresh
          /\ env' = EnvAfterTick(fresh, env)
          /\ IF HeaderRaises(env')
             THEN \* _renderHeader raises before the stop test
                  UNCHANGED <<refreshTimer, liveTimers>>
             ELSE LET tm == StopIfIdle(env', fresh, refreshTimer, liveTimers)
                  IN /\ liveTimers' = tm.lt
                     /\ refreshTimer' = tm.rt
  /\ UNCHANGED <<attached, clusterId, stackName, clusterName, resourceStats,
                 varCounts, deployments, resources, ingresses, schedule,
                 maintenanceWin, costEnabled, activeTab, isLoading, error,
                 tabsRendered, pickerShown, fetched>>

----------------------------------------------------------------------------
(* Intent emitter *)

\* the route table of _handleCTA: the facets-navigate event each action
\* dispatches, named by the route it carries ({base} is
\* /projects/<stackName>/environments/<name> of the current env)
routes ==
  ("launch"                :> "facets-navigate:{base}/launch")
  @@ ("plan"               :> "facets-navigate:{base}/releases/plan")
  @@ ("run-plan"           :> "facets-navigate:{base}/releases/plan")
  @@ ("trigger-release"    :> "facets-navigate:{base}/releases/new")
  @@ ("trigger-hotfix"     :> "facets-navigate:{base}/releases/hotfix")
  @@ ("scale-up"           :> "facets-navigate:{base}/scale-up")
  @@ ("scale-down"         :> "facets-navigate:{base}/scale-down")
  @@ ("resume-releases"    :> "facets-navigate:{base}/settings?action=resume-releases")
  @@ ("add-variable"       :> "facets-navigate:{base}/settings?tab=variables")
  @@ ("add-schedule"       :> "facets-navigate:{base}/settings?tab=schedule")
  @@ ("toggle-maintenance" :> "facets-navigate:{base}/settings?tab=maintenance")
  @@ ("manage-resources"   :> "facets-navigate:{base}/resources")
  @@ ("open-cost"          :> "facets-navigate:/projects/{stackName}/cost")
  @@ ("destroy"            :> "facets-navigate:{base}/destroy")

\* the three actions routed with the deployment id of the clicked element
depRoutes ==
  [ approve |-> "facets-navigate:{base}/releases/{dep}?action=approve",
    reject  |-> "facets-navigate:{base}/releases/{dep}?action=reject",
    abort   |-> "facets-navigate:{base}/releases/{dep}?action=abort" ]

\* a handler that routes approve, reject and abort whether or not the
\* event carries a deployment id
_handleCTANoDepTest(action, depId) ==
  /\ attached = "connected"
  /\ emitted' =
       IF action \in DOMAIN depRoutes THEN {depRoutes[action]}
       ELSE IF action \in DOMAIN routes THEN {routes[action]}
       ELSE IF action \in ObjectPrototype
            THEN {"facets-navigate:[inherited member]"}
            ELSE {}
  /\ UNCHANGED <<attached, clusterId, stackName, clusterName, cacheVars,
                 costEnabled, activeTab, isLoading, error, refreshTimer,
                 liveTimers, tabsRendered, pickerShown, tasks, fetched>>

\* _handleCTA(action, event), depId being the data-dep of the event's
\* target (null when there is none): at most one _navigate call
_handleCTA(action, depId) ==
  /\ attached = "connected"
  /\ emitted' =
       IF action \in DOMAIN depRoutes /\ ToBoolean(depId)
       THEN {depRoutes[action]}
       ELSE IF action \in DOMAIN routes THEN {routes[action]}
       ELSE IF action \in ObjectPrototype
            THEN \* routes[action] is the inherited member, which is truthy
                 {"facets-navigate:[inherited member]"}
            ELSE {}
  /\ UNCHANGED <<attached, clusterId, stackName, clusterName, cacheVars,
                 costEnabled, activeTab, isLoading, error, refreshTimer,
                 liveTimers, tabsRendered, pickerShown, tasks, fetched>>

----------------------------------------------------------------------------
(* Specification *)

\* responses drawn for the fetches: of the resolution call, of the three
\* critical fetches (the overview with resource-stats and variable-counts),
\* and of a lazy fetch set
ResolveResults  == {"fail", UNDEF} \cup ClusterIds
StatsResults    == {<<NULL, NoObj>>, <<DATA, COUNTS>>}
CriticalResults == (Overviews \cup {NoObj}) \X StatsResults
LazyResults     == {<<NULL, NULL>>, <<DATA, DATA>>}

\* the user selects a tab that needs data only when no tab data is pending
OneLazyAtATime(tab) == Issues(tab) => InFlight({"lazy"}) = 0

Next ==
  \/ \E a \in Attrs, loc \in Locations : connectedCallback(a, loc)
  \/ disconnectedCallback
  \/ \E cid \in ClusterIds : pickerGo(cid)
  \/ \E t \in BagToSet(tasks), r \in ResolveResults : resolveDone(t, r)
  \/ \E t \in BagToSet(tasks), r \in CriticalResults :
        loadDone(t, r[1], r[2][1], r[2][2])
  \/ \E t \in BagToSet(tasks), cost \in BOOLEAN : secondaryDone(t, cost)
  \/ _hardRefresh
  \/ \E tab \in ClickedTabs : OneLazyAtATime(tab) /\ _switchTab(tab)
  \/ \E t \in BagToSet(tasks), r \in LazyResults : lazyDone(t, r[1], r[2])
  \/ timerFire
  \/ \E t \in BagToSet(tasks), fresh \in Overviews \cup {NoObj} : tickDone(t, fresh)

Spec == Init /\ [][Next]_vars

\* The staged loader with the three critical fetches settling one by one,
\* in any order, each present or absent on its own.
FetchResults(f) ==
  CASE f = "fetch:overview" -> Overviews \cup {NoObj}
    [] f = "fetch:stats"    -> {NULL, DATA}
    [] f = "fetch:vars"     -> {NoObj, COUNTS}

NextFanIn ==
  \/ \E a \in Attrs, loc \in Locations : connectedCallback(a, loc)
  \/ disconnectedCallback
  \/ \E cid \in ClusterIds : pickerGo(cid)
  \/ \E t \in BagToSet(tasks), r \in ResolveResults : resolveDone(t, r)
  \/ \E t \in BagToSet(tasks), f \in CriticalFetches :
        \E r \in FetchResults(f) : criticalSettle(t, f, r)
  \/ \E t \in BagToSet(tasks) : criticalDone(t)
  \/ \E t \in BagToSet(tasks), cost \in BOOLEAN : secondaryDone(t, cost)
  \/ _hardRefresh

SpecFanIn == Init /\ [][NextFanIn]_vars

\* The lazy tab loader with every tab selectable at any time, also while
\* tab data is pending, on a widget attached with its cluster id; loads
\* answer with a Kubernetes cluster at rest or with a deployment in
\* progress, and the user reloads only when no load is pending.
TabsOverviews == { Overview(Cluster("RUNNING", TRUE), FALSE), Overview(NoObj, TRUE) }

NextTabs ==
  \/ \E a \in {<<"abc123", NULL, NULL>>} : connectedCallback(a, NoLoc)
  \/ \E t \in BagToSet(tasks), ov \in TabsOverviews : loadDone(t, ov, DATA, COUNTS)
  \/ \E t \in BagToSet(tasks) : secondaryDone(t, TRUE)
  \/ InFlight({"load", "secondary"}) = 0 /\ _hardRefresh
  \/ \E tab \in Tabs : _switchTab(tab)
  \/ \E t \in BagToSet(tasks), r \in LazyResults : lazyDone(t, r[1], r[2])
  \/ timerFire
  \/ \E t \in BagToSet(tasks), fresh \in Overviews \cup {NoObj} : tickDone(t, fresh)

SpecTabs == Init /\ [][NextTabs]_vars

\* The loader and the refresh scheduler with the overview fetched through
\* the gateway from a response that may fail in each way.
OverviewResponses == ApiResponses(Overviews)

NextGateway ==
  \/ \E a \in {<<"abc123", NULL, NULL>>} : connectedCallback(a, NoLoc)
  \/ disconnectedCallback
  \/ \E t \in BagToSet(tasks), resp \in OverviewResponses, r \in StatsResults :
        loadDone(t, _api(resp), r[1], r[2])
  \/ \E t \in BagToSet(tasks), cost \in BOOLEAN : secondaryDone(t, cost)
  \/ _hardRefresh
  \/ timerFire
  \/ \E t \in BagToSet(tasks), resp \in OverviewResponses : tickDone(t, _api(resp))

SpecGateway == Init /\ [][NextGateway]_vars

\* The context resolver on every combination of attributes and of what a
\* location can carry: either id parameter, and the pattern in the path, in
\* the fragment and in the query string, with segments that decode or not.
AllAttrs == {NULL, "abc123"} \X {NULL, "Acme"} \X {NULL, "prod-1"}
AllLocations ==
  [qClusterId : {NULL, "q-id"}, qClusterDashId : {NULL, "q-dash-id"},
   path   : {NoObj, Match("PathProj", "path-env"),
             [Match("PathProj", "path-env") EXCEPT !.bad = "stack"],
             [Match("PathProj", "path-env") EXCEPT !.bad = "cluster"]},
   hash   : {NoObj, Match("HashProj", "hash-env"),
             [Match("HashProj", "hash-env") EXCEPT !.bad = "cluster"]},
   search : {NoObj, Match("QueryProj", "query-env")}]

NextContext ==
  \/ \E a \in AllAttrs, loc \in AllLocations : connectedCallback(a, loc)
  \/ \E cid \in ClusterIds : pickerGo(cid)
  \/ \E t \in BagToSet(tasks), r \in ResolveResults : resolveDone(t, r)
  \/ \E t \in BagToSet(tasks), r \in CriticalResults :
        loadDone(t, r[1], r[2][1], r[2][2])
  \/ \E t \in BagToSet(tasks), cost \in BOOLEAN : secondaryDone(t, cost)

SpecContext == Init /\ [][NextContext]_vars

\* The resources tab of an environment that runs on Kubernetes: every
\* overview the server returns carries a cluster with Kubernetes detected.
K8sOverviews == { Overview(Cluster("RUNNING", TRUE), FALSE),
                 Overview(Cluster("LAUNCHING", TRUE), FALSE) }

NextK8s ==
  \/ \E loc \in Locations : connectedCallback(<<"abc123", NULL, NULL>>, loc)
  \/ \E t \in BagToSet(tasks), ov \in K8sOverviews, r \in StatsResults :
        loadDone(t, ov, r[1], r[2])
  \/ \E t \in BagToSet(tasks), cost \in BOOLEAN : secondaryDone(t, cost)
  \/ _hardRefresh
  \/ \E tab \in ClickedTabs : _switchTab(tab)
  \/ \E t \in BagToSet(tasks), r \in LazyResults : lazyDone(t, r[1], r[2])
  \/ timerFire
  \/ \E t \in BagToSet(tasks), fresh \in K8sOverviews \cup {NoObj} : tickDone(t, fresh)

SpecK8s == Init /\ [][NextK8s]_vars

\* The renderers on the payloads the server can return: every cluster state
\* of the tables, states the tables do not list (one of them an inherited
\* name) and a cluster without a state; never-launched clusters with every
\* combination of the readiness inputs, legacy and blueprint; deployment
\* statistics with every combination of counts up to MaxReleases.
MaxReleases == 3

TableStates == DOMAIN stateConfMap
ViewStates  == TableStates \cup {"PAUSED", "constructor"}

StateClusters ==
  {Cluster(s, FALSE) : s \in ViewStates} \cup {[k8s |-> FALSE]}

ReadinessClusters ==
  {Cluster("STOPPED", k) @@ r :
     k \in BOOLEAN,
     r \in [configured : BOOLEAN, cloudAccountId : {"", "acct-1"},
            hasK8sCredentials : BOOLEAN]
           \cup [configured : BOOLEAN, cloudAccountId : {"", "acct-1"}]}
  \cup {Cluster("STOPPED", FALSE) @@ [stack |-> [projectTypeId |-> "pt-1"]]}

ReleaseCounts ==
  [successReleases : 0..MaxReleases, failedReleases : 0..MaxReleases,
   noChangeReleases : 0..MaxReleases]
  \cup [successReleases : 1..MaxReleases]

ViewOverviews ==
  {Overview(c, FALSE) : c \in StateClusters}
  \cup {Overview(c, FALSE) @@ [deploymentsStats |-> [isFirstRelease |-> TRUE]] :
          c \in ReadinessClusters}
  \cup {Overview(Cluster("RUNNING", TRUE), FALSE) @@ [deploymentsStats |-> ds] :
          ds \in ReleaseCounts}

ViewCounts ==
  {NoObj, Counts(0, 0), Counts(1, 0), Counts(0, 1), [variableCount |-> 0]}

NextView ==
  \/ connectedCallback(<<"abc123", NULL, NULL>>, NoLoc)
  \/ \E t \in BagToSet(tasks), ov \in ViewOverviews \cup {NoObj}, vc \in ViewCounts :
        loadDone(t, ov, DATA, vc)
  \/ \E t \in BagToSet(tasks), cost \in BOOLEAN : secondaryDone(t, cost)
  \/ InFlight({"load", "secondary"}) = 0 /\ _hardRefresh
  \/ \E tab \in {"overview", "config"} : _switchTab(tab)

SpecView == Init /\ [][NextView]_vars

\* The intent emitter on every action the widget renders a button for, on
\* names it renders none for (one of them an inherited name), with and
\* without a deployment id on the clicked element.
ActionNames ==
  DOMAIN routes \cup DOMAIN depRoutes \cup {"open-logs", "constructor"}
DepIds == {NULL, "dep-1"}

NextIntent ==
  \/ \E a \in Attrs, loc \in Locations : connectedCallback(a, loc)
  \/ \E t \in BagToSet(tasks), r \in ResolveResults : resolveDone(t, r)
  \/ \E t \in BagToSet(tasks), r \in CriticalResults :
        loadDone(t, r[1], r[2][1], r[2][2])
  \/ \E t \in BagToSet(tasks), cost \in BOOLEAN : secondaryDone(t, cost)
  \/ \E a \in ActionNames, dep \in DepIds : _handleCTA(a, dep)

SpecIntent == Init /\ [][NextIntent]_vars

\* The staged loader when every fetch a load issues eventually settles: the
\* resolution call and the critical fetches of each load in flight, the
\* superseded ones included.
LiveResults == {Overview(Cluster("RUNNING", TRUE), FALSE), NoObj} \X StatsResults

LoadTasks ==
  {[LoadTask(pc, from) EXCEPT !.stale = st] :
     pc \in {"resolve", "critical"}, from \in {"connect", "reload", "picker"},
     st \in BOOLEAN}

\* the fetches load t is waiting for settle
Settles(t) ==
  \/ \E r \in ResolveResults : resolveDone(t, r)
  \/ \E r \in LiveResults : loadDone(t, r[1], r[2][1], r[2][2])

NextLive ==
  \/ \E a \in Attrs, loc \in Locations : connectedCallback(a, loc)
  \/ \E cid \in ClusterIds : pickerGo(cid)
  \/ \E t \in LoadTasks : Settles(t)
  \/ \E t \in BagToSet(tasks), cost \in BOOLEAN : secondaryDone(t, cost)
  \/ _hardRefresh

SpecLive ==
  /\ Init /\ [][NextLive]_vars
  /\ \A t \in LoadTasks : WF_vars(Settles(t))

----------------------------------------------------------------------------
(* Vocabulary of the properties *)

\* the load states of the specification
Ready  == ~isLoading /\ error = NULL
Failed == error # NULL

\* pollingActive of an overview snapshot: an in-progress deployment, or the
\* cluster state of that snapshot is transitional
pollingActive(ov) ==
  \/ ov # NoObj /\ ov.inProgress
  \/ ov # NoObj /\ ov.cluster # NoObj /\ ov.cluster.clusterState \in activeStates

TimerRunning == liveTimers > 0

\* the step completes task t: the continuation of its fetch runs
LoadDoneOf(t) == \E r \in CriticalResults : loadDone(t, r[1], r[2][1], r[2][2])
Done(t) ==
  \/ \E r \in ResolveResults : resolveDone(t, r)
  \/ LoadDoneOf(t)
  \/ \E cost \in BOOLEAN : secondaryDone(t, cost)
  \/ \E r \in LazyResults : lazyDone(t, r[1], r[2])
  \/ \E fresh \in Overviews \cup {NoObj} : tickDone(t, fresh)

\* the last step was the completion of a load's critical phase
JustLoaded == "fetch:cost" \in emitted

----------------------------------------------------------------------------
(* C11: loading finishes without an error only by the fan-in of a load    *)
(* whose three critical fetches have all settled; the fan-in always ends   *)
(* loading and records no error, whichever of the three results are        *)
(* absent; and the settling of a single fetch neither ends loading nor     *)
(* records an error.                                                       *)
C11_ReadyExactlyAtFanIn ==
  [][/\ (isLoading /\ ~isLoading' /\ error' = NULL) =>
          \E t \in BagToSet(tasks) :
             /\ DOMAIN t.got = CriticalFetches
             /\ criticalDone(t)
     /\ \A t \in BagToSet(tasks) :
          criticalDone(t) => (~isLoading' /\ error' = error /\ (error = NULL => Ready'))
     /\ \A t \in BagToSet(tasks), f \in CriticalFetches :
          (\E r \in FetchResults(f) : criticalSettle(t, f, r))
             => (isLoading' = isLoading /\ error' = error)]_vars

\* a load finished Ready with the overview and the variable counts absent
\* and the resource statistics present
C11_Witness ==
  /\ JustLoaded /\ Ready
  /\ overview = NoObj /\ resourceStats = DATA /\ varCounts = NoObj

(* C12: a failed identity resolution leads to Failed, and from a Failed    *)
(* state in which loading has ended the session stays Failed, issues no    *)
(* fetch and starts no timer, unless the user starts a hard reload.        *)
C12_FailedIsTerminal ==
  [][/\ \A t \in BagToSet(tasks) : resolveDone(t, "fail") => Failed'
     /\ (Failed /\ ~isLoading /\ ~_hardRefresh) => (Failed' /\ emitted' = {})]_vars

(* C13: when the identity phase ends without a concrete id (the resolution *)
(* call fails, or its response carries no id), the session is Failed and   *)
(* no critical fetch is issued.                                            *)
C13_NoIdMeansFailed ==
  [][\A t \in BagToSet(tasks), r \in {"fail", UNDEF} :
        resolveDone(t, r) => (Failed' /\ emitted' \cap CriticalFetches = {})]_vars

\* every cached field is absent
AllCold ==
  /\ overview = NoObj /\ env = NoObj
  /\ resourceStats = NULL /\ varCounts = NoObj
  /\ deployments = NULL /\ resources = NULL /\ ingresses = NULL
  /\ schedule = NULL /\ maintenanceWin = NULL

(* C14: the step of a hard reload that issues the reload's first fetch     *)
(* leaves every cached field absent: overview, env, resource stats,        *)
(* variable counts and the five tab entries.                               *)
C14_ReloadClearsBeforeFetch ==
  [][_hardRefresh => (AllCold' /\ emitted' # {})]_vars

\* a hard reload of a fully loaded session has just issued its fetches
C14_Witness ==
  /\ AllCold /\ isLoading /\ tabsRendered /\ costEnabled
  /\ emitted = CriticalFetches
  /\ \E t \in BagToSet(tasks) : t.kind = "load" /\ t.from = "reload" /\ ~t.stale

(* C16: a hard reload resets the cost-explorer capability flag.            *)
C16_ReloadResetsCostFlag ==
  [][_hardRefresh => costEnabled' = FALSE]_vars

(* C20: the polling condition the code evaluates after a load (to start    *)
(* the timer) and after a tick with a fetched overview (to keep it) equals *)
(* pollingActive of the current overview.                                  *)
C20_PollingActiveOfOverview ==
  [][/\ \A t \in BagToSet(tasks) :
          LoadDoneOf(t) => (ShouldStart(env', overview') <=> pollingActive(overview'))
     /\ \A t \in BagToSet(tasks), fresh \in Overviews :
          tickDone(t, fresh) => (~ShouldStop(env', fresh) <=> pollingActive(overview'))]_vars

(* C15: a step other than a hard reload never resets a populated tab cache *)
(* entry (deployments, resources, schedule) to absent.                     *)
C15_NoEviction ==
  [][~_hardRefresh =>
        \A tab \in LazyTabs : Entry(tab) # NULL => Entry(tab)' # NULL]_vars

(* C17: for every overview fetch in flight (of a load or of a tick) and    *)
(* every response to it, the gateway raises nothing to its caller: it      *)
(* gives the parsed body when the response is ok and parses, and the same  *)
(* absence value for a rejected fetch, a non-ok response and a body that   *)
(* does not parse.                                                         *)
C17_ApiNeverRaises ==
  \A t \in BagToSet(tasks) : \A resp \in OverviewResponses :
     (t.kind = "tick" \/ (t.kind = "load" /\ t.pc = "critical")) =>
        /\ _api(resp) # RAISED
        /\ resp.outcome = "ok" => _api(resp) = resp.body
        /\ resp.outcome # "ok" => _api(resp) = NoObj

\* a load whose overview response failed has completed without an error
C17_Witness == JustLoaded /\ overview = NoObj /\ ~isLoading /\ error = NULL

\* identities, and the one the widget goes on with after attachment
IdOf(x)       == [kind |-> "id", id |-> x, stack |-> NULL, cluster |-> NULL]
NamesOf(s, c) == [kind |-> "names", id |-> NULL, stack |-> s, cluster |-> c]
NoIdentity    == [kind |-> "none", id |-> NULL, stack |-> NULL, cluster |-> NULL]
IdentityUsed ==
  IF pickerShown THEN NoIdentity
  ELSE IF Truthy(clusterId) THEN IdOf(clusterId)
  ELSE NamesOf(stackName, clusterName)

\* the resolution order as specified
OfMatch(m) == IF m.bad = "none" THEN NamesOf(m.stack, m.cluster) ELSE NoIdentity
ExpectedIdentity(a, loc) ==
  IF Truthy(a[1]) THEN IdOf(a[1])
  ELSE IF Truthy(a[2]) /\ Truthy(a[3]) THEN NamesOf(a[2], a[3])
  ELSE IF Truthy(loc.qClusterId) THEN IdOf(loc.qClusterId)
  ELSE IF Truthy(loc.qClusterDashId) THEN IdOf(loc.qClusterDashId)
  ELSE IF loc.path # NoObj THEN OfMatch(loc.path)
  ELSE IF loc.hash # NoObj THEN OfMatch(loc.hash)
  ELSE NoIdentity

(* C18: attaching the widget resolves the identity from the first source   *)
(* that matches, in the order id attribute, (stack, cluster) attribute     *)
(* pair, clusterId parameter, cluster-id parameter, pattern in the path,   *)
(* pattern in the fragment, otherwise none.                                *)
C18_ResolutionOrder ==
  [][\A a \in AllAttrs, loc \in AllLocations :
        connectedCallback(a, loc) => IdentityUsed' = ExpectedIdentity(a, loc)]_vars

\* no attribute and no id parameter gives an identity, and the pattern
\* occurs nowhere in the location or decoding its first occurrence throws
NothingToResolve(a, loc) ==
  /\ ~Truthy(a[1]) /\ ~(Truthy(a[2]) /\ Truthy(a[3]))
  /\ ~Truthy(loc.qClusterId) /\ ~Truthy(loc.qClusterDashId)
  /\ \/ loc.path = NoObj /\ loc.hash = NoObj /\ loc.search = NoObj
     \/ loc.path # NoObj /\ loc.path.bad # "none"
     \/ loc.path = NoObj /\ loc.hash # NoObj /\ loc.hash.bad # "none"
     \/ loc.path = NoObj /\ loc.hash = NoObj /\ loc.search.bad # "none"

(* C19: when no attribute, id parameter or occurrence of the pattern gives *)
(* an identity, or decoding the location throws, attachment shows the      *)
(* picker and issues no resolution or critical fetch; and while the picker *)
(* is shown none is issued except by the user picking an environment.      *)
C19_NoContextShowsPicker ==
  [][/\ \A a \in AllAttrs, loc \in AllLocations :
          (connectedCallback(a, loc) /\ NothingToResolve(a, loc)) =>
             /\ pickerShown' /\ tasks' = EmptyBag
             /\ emitted' \cap ({"fetch:resolve"} \cup CriticalFetches) = {}
     /\ (pickerShown /\ ~(\E cid \in ClusterIds : pickerGo(cid))) =>
             /\ pickerShown' /\ tasks' = EmptyBag
             /\ emitted' \cap ({"fetch:resolve"} \cup CriticalFetches) = {}]_vars

\* the picker is shown on a widget attached with one name attribute only
C19_Witness ==
  /\ pickerShown /\ attached = "connected" /\ tasks = EmptyBag
  /\ emitted = {"fetch:stacks"}
  /\ clusterId = NULL /\ stackName = NULL /\ clusterName = "prod-1"

(* C21: a refresh tick issues exactly one fetch, the overview's, and       *)
(* neither the firing of the timer nor the continuation of the tick        *)
(* changes the resource statistics, the variable counts, the cost flag,    *)
(* the active tab or any tab cache entry.                                  *)
C21_TickFrame ==
  [][/\ timerFire =>
          /\ emitted' = {"fetch:overview"}
          /\ UNCHANGED <<resourceStats, varCounts, costEnabled, activeTab,
                         deployments, resources, ingresses, schedule,
                         maintenanceWin>>
     /\ \A t \in BagToSet(tasks), fresh \in Overviews \cup {NoObj} :
          tickDone(t, fresh) =>
            /\ emitted' = {}
            /\ UNCHANGED <<resourceStats, varCounts, costEnabled, activeTab,
                           deployments, resources, ingresses, schedule,
                           maintenanceWin>>]_vars

\* a tick is pending over loaded statistics, a cost flag and a filled cache
C21_Witness ==
  /\ emitted = {"fetch:overview"} /\ InFlight({"tick"}) = 1
  /\ resourceStats = DATA /\ varCounts = COUNTS /\ costEnabled
  /\ resources = DATA /\ activeTab = "resources"

(* C22: when the resources tab's lazy fetch is issued, the ingress-rules   *)
(* fetch is issued with it if and only if the environment runs on          *)
(* Kubernetes, whatever the moment of the selection; checked for an        *)
(* environment that every overview response reports as Kubernetes.         *)
OnKubernetes == \A ov \in K8sOverviews : _hasKubernetes(EnvOf(ov))
C22_IngressIffKubernetes ==
  [][(_switchTab("resources") /\ Issues("resources")) =>
        ("fetch:ingress" \in emitted' <=> OnKubernetes)]_vars

(* C23: the cost-capability fetch is issued only by the step that          *)
(* completes a load's critical phase, a step that ends loading and         *)
(* reaches Ready (no error recorded before it); that step does not depend  *)
(* on any secondary fetch, and the settling of a secondary fetch changes   *)
(* neither the loading flag nor the error.                                 *)
C23_SecondaryAfterCritical ==
  [][/\ "fetch:cost" \in emitted' =>
          /\ \E t \in BagToSet(tasks) : LoadDoneOf(t)
          /\ ~isLoading'
          /\ error = NULL => Ready'
     /\ \A t \in BagToSet(tasks) :
          LoadDoneOf(t) => "fetch:cost" \in emitted' /\ ~isLoading'
     /\ \A t \in BagToSet(tasks), cost \in BOOLEAN :
          secondaryDone(t, cost) => UNCHANGED <<isLoading, error>>]_vars

\* Ready is reached by a reload while the secondary fetch of the load
\* before it has not settled
C23_Witness ==
  /\ Ready /\ JustLoaded
  /\ InFlight({"secondary"}) = 2

(* C24: the header's action list is empty for each of the four             *)
(* transitional cluster states and non-empty for every other state of the  *)
(* table; and after a load that started the timer with the cluster in a    *)
(* transitional state, the header it rendered offers no action.            *)
C24_HeaderActions ==
  /\ \A s \in TableStates :
       (_headerCTAs(s, env) = CTAs(<< >>)) <=> (s \in activeStates)
  /\ ("setInterval" \in emitted /\ StateOf(env) \in activeStates) =>
       _headerCTAs(HeaderState(env), env) = CTAs(<< >>)

\* a load has just started the timer because of the cluster state alone
C24_Witness ==
  /\ "setInterval" \in emitted /\ TimerRunning
  /\ StateOf(env) = "SCALING_DOWN" /\ ~InProgress(overview)

(* C25: when the readiness card of a legacy environment is shown, the      *)
(* overall pass is the AND of the checks shown: with Kubernetes detected   *)
(* these are configured, cloud account linked, Kubernetes credentials and  *)
(* variables present; without it the credentials check is not shown and    *)
(* the pass is the AND of the other three, whatever the credentials flag.  *)
ReadinessShown ==
  /\ env # NoObj /\ isNeverLaunched(env, overview) /\ isLegacy(env)
  /\ activeTab = "overview"
Labels(checks) == [i \in 1..Len(checks) |-> checks[i].label]
C25_ReadinessPass ==
  ReadinessShown =>
    LET checks == LegacyChecks(env, varCounts)
        conf   == Flag(env, "configured")
        acct   == Field(env, "cloudAccountId") \notin {UNDEF, NULL, ""}
        creds  == Flag(env, "hasK8sCredentials")
        pops   == /\ varCounts # NoObj
                  /\ \/ Num(varCounts, "variableCount") > 0
                     \/ Num(varCounts, "secretCount") > 0
    IN IF _hasKubernetes(env)
       THEN /\ Labels(checks) = <<"Environment configured", "Cloud account linked",
                                  "Kubernetes credentials", "Variables populated">>
            /\ allOk(checks) <=> (conf /\ acct /\ creds /\ pops)
       ELSE /\ Labels(checks) = <<"Environment configured", "Cloud account linked",
                                  "Variables populated">>
            /\ allOk(checks) <=> (conf /\ acct /\ pops)

\* the card passes for an environment without Kubernetes whose credentials
\* flag is false
C25_Witness ==
  /\ ReadinessShown /\ ~_hasKubernetes(env)
  /\ Has(env, "hasK8sCredentials") /\ ~env.hasK8sCredentials
  /\ allOk(LegacyChecks(env, varCounts))

\* the card fails for an environment with Kubernetes by the credentials
\* check alone
C25_WitnessK8s ==
  /\ ReadinessShown /\ _hasKubernetes(env) /\ ~Flag(env, "hasK8sCredentials")
  /\ Flag(env, "configured") /\ hasVars(varCounts)
  /\ Field(env, "cloudAccountId") = "acct-1"
  /\ ~allOk(LegacyChecks(env, varCounts))

(* C26: the deploy-health figure of the loaded overview is the integer     *)
(* nearest to 100 * success / (success + failed + noChange), halves        *)
(* rounding up, whenever that sum is positive (3, 1, 0 gives 75), and is   *)
(* "no data" whenever the sum is 0 or the deployment statistics or the     *)
(* overview are absent.                                                    *)
C26_DeployHealth ==
  LET has == overview # NoObj /\ Has(overview, "deploymentsStats")
      ds  == IF has THEN overview.deploymentsStats ELSE EmptyObj
      s   == Num(ds, "successReleases")
      sum == s + Num(ds, "failedReleases") + Num(ds, "noChangeReleases")
  IN /\ sum > 0 =>
          \E p \in 0..100 :
            /\ succPct(overview) = Pct(p)
            /\ 2 * p * sum <= 200 * s + sum
            /\ 200 * s < (2 * p + 1) * sum
     /\ sum = 0 => succPct(overview) = NoData
     /\ (has /\ ds = [successReleases |-> 3, failedReleases |-> 1,
                      noChangeReleases |-> 0]) => succPct(overview) = Pct(75)

\* a load returned statistics of two successes in three deployments
C26_Witness ==
  /\ JustLoaded /\ overview # NoObj /\ Has(overview, "deploymentsStats")
  /\ overview.deploymentsStats = [successReleases |-> 2, failedReleases |-> 0,
                                  noChangeReleases |-> 1]
  /\ succPct(overview) = Pct(67)

\* a load returned statistics without any deployment
C26_WitnessNoData ==
  /\ JustLoaded /\ overview # NoObj /\ Has(overview, "deploymentsStats")
  /\ overview.deploymentsStats = [successReleases |-> 0, failedReleases |-> 0,
                                  noChangeReleases |-> 0]
  /\ succPct(overview) = NoData

(* C27: for a loaded cluster whose state is not in the classification      *)
(* table, an absent state included, the classification of the state the    *)
(* renderers pass (env.clusterState || 'UNKNOWN') is the Unknown           *)
(* descriptor.                                                             *)
C27_UnknownDescriptor ==
  Field(env, "clusterState") \notin TableStates =>
    _stateConf(HeaderState(env)) = stateConfMap.UNKNOWN

\* states outside the table that do classify as Unknown: a loaded cluster
\* without a state, and one in a state the table does not list
C27_AbsentIsUnknown ==
  /\ env # NoObj /\ ~Has(env, "clusterState")
  /\ _stateConf(HeaderState(env)) = stateConfMap.UNKNOWN

(* C28: emitting an action that has no route (a name the route table does  *)
(* not list, or approve, reject or abort without a deployment id)          *)
(* dispatches no navigation event; emitting an action that has one         *)
(* dispatches exactly one facets-navigate event.                           *)
HasRoute(a, dep) ==
  a \in DOMAIN routes \/ (a \in DOMAIN depRoutes /\ dep # NULL)
C28_UnknownActionIgnored ==
  [][\A a \in ActionNames, dep \in DepIds :
        _handleCTA(a, dep) =>
          IF HasRoute(a, dep) THEN Cardinality(emitted') = 1
          ELSE emitted' = {}]_vars

(* C29: once clusterId holds an id, no step other than a pick in the       *)
(* picker changes it (hard reloads, refresh ticks and the completions of   *)
(* fetches included); a load started with the id present issues the        *)
(* critical fetches and no resolution call, and a load started without it  *)
(* issues exactly the resolution call.                                     *)
C29_IdNeverChanges ==
  [][/\ (Truthy(clusterId) /\ ~(\E cid \in ClusterIds : pickerGo(cid))) =>
          clusterId' = clusterId
     /\ "fetch:resolve" \in emitted' => ~Truthy(clusterId')
     /\ _hardRefresh =>
          emitted' = IF Truthy(clusterId) THEN CriticalFetches
                     ELSE {"fetch:resolve"}]_vars

(* C30: when every fetch eventually settles, each load in flight           *)
(* eventually completes its stage or is superseded by a reload, each       *)
(* superseded load in flight eventually completes its stage as well,       *)
(* loading eventually ends, and the step that completes a load leaves the  *)
(* widget not loading, that is Ready or Failed.                            *)
Superseded(t) == [t EXCEPT !.stale = TRUE]
LoadEnds(t) ==
  \/ resolveDone(t, "fail")
  \/ \E r \in LiveResults : loadDone(t, r[1], r[2][1], r[2][2])
C30_LoadsComplete ==
  /\ \A t \in {u \in LoadTasks : ~u.stale} :
       BagIn(t, tasks) ~> (~BagIn(t, tasks) \/ BagIn(Superseded(t), tasks))
  /\ \A t \in {u \in LoadTasks : u.stale} :
       []<>(~BagIn(t, tasks)) \/ []<><<Settles(t)>>_vars
  /\ (InFlight({"load"}) > 0) ~> ~isLoading
  /\ [][\A t \in LoadTasks :
          LoadEnds(t) => (~isLoading' /\ (Ready' \/ Failed'))]_vars

\* a load has completed Ready while a load it overlaps with is in flight
C30_Witness ==
  /\ JustLoaded /\ Ready
  /\ InFlight({"load"}) = 1

(* C31: a refresh tick whose overview fetch came back absent changes
   nothing: overview and env keep their values, the timer handle and the
   set of live timers are untouched, nothing is rendered or emitted, and
   no fetch is issued by the continuation (the only thing that happens is
   that the tick's own request leaves the in-flight set), so the overview
   is asked for again only when the timer fires next. *)
C31_AbsentTickChangesNothing ==
  [][\A t \in BagToSet(tasks) :
       (t.kind = "tick" /\ tickDone(t, NoObj)) =>
         /\ UNCHANGED <<overview, env, refreshTimer, liveTimers>>
         /\ UNCHANGED cacheVars
         /\ fetched' = fetched
         /\ tasks' = tasks (-) One(t)
         /\ InFlight({"tick"})' < InFlight({"tick"})]_vars

\* an absent tick has been consumed: the timer is still running over a
\* loaded overview that still asks for polling, and no tick is in flight
C31_Witness ==
  /\ TimerRunning /\ overview # NoObj /\ pollingActive(overview)
  /\ tasks = EmptyBag /\ emitted = {} /\ ~isLoading

\* the pattern occurs in the query string only, and no id parameter is given
QueryOnly(loc) ==
  /\ ~Truthy(loc.qClusterId) /\ ~Truthy(loc.qClusterDashId)
  /\ loc.path = NoObj /\ loc.hash = NoObj /\ loc.search # NoObj

(* C32: the /projects/{stack}/environments/{cluster} pattern is taken from *)
(* the path and from the fragment only: when the widget is attached        *)
(* without attributes at a location that carries the pattern in the query  *)
(* string only, and no id parameter, the resolver yields no context, so no *)
(* name is stored and the picker is shown.                                 *)
C32_QueryStringNotASource ==
  [][\A loc \in AllLocations :
       (connectedCallback(<<NULL, NULL, NULL>>, loc) /\ QueryOnly(loc)) =>
          /\ _tryUrlContext(loc) = NoCtx
          /\ stackName' = NULL /\ clusterName' = NULL
          /\ pickerShown' /\ tasks' = EmptyBag]_vars

\* the requests that belong to a tab
TabFetchSet(tab) ==
  CASE tab = "releases"  -> {"fetch:releases"}
    [] tab = "resources" -> {"fetch:resources", "fetch:ingress"}
    [] tab = "schedule"  -> {"fetch:schedule", "fetch:maintenance"}
    [] OTHER -> {}

(* C33: selecting the overview or the config tab issues no fetch, starts   *)
(* no request and changes no cached data; selecting releases, resources or *)
(* schedule changes no cached data either, issues requests of that tab's   *)
(* fetch set only, and issues them only if that tab's cache entry is       *)
(* absent at the time of the selection.                                    *)
C33_TabSelectionFetches ==
  [][\A tab \in Tabs :
       _switchTab(tab) =>
         /\ UNCHANGED cacheVars
         /\ tab \in {"overview", "config"} =>
              emitted' = {} /\ tasks' = tasks
         /\ tab \in LazyTabs =>
              /\ emitted' \subseteq TabFetchSet(tab)
              /\ (emitted' # {} \/ tasks' # tasks) => Entry(tab) = NULL
              /\ Entry(tab) # NULL => fetched' = fetched]_vars

\* the schedule tab has just been selected with its entry absent, while
\* the releases entry is filled: only the schedule's two requests go out
C33_Witness ==
  /\ activeTab = "schedule" /\ schedule = NULL /\ deployments # NULL
  /\ emitted = {"fetch:schedule", "fetch:maintenance"}

\* the releases tab is selected over a filled entry and nothing is in flight
C33_WitnessCached ==
  /\ activeTab = "releases" /\ deployments # NULL
  /\ emitted = {} /\ InFlight({"lazy"}) = 0 /\ ~isLoading

\* the navigation signal whose route is the release of the deployment with
\* the action appended as a query modifier
ReleaseRoute(a) == "facets-navigate:{base}/releases/{dep}?action=" \o a

(* C34: approve, reject and abort produce a navigation signal only when    *)
(* the triggering event carries a deployment id: without one nothing is    *)
(* emitted, and with one exactly one signal is emitted, whose route is the *)
(* release of that deployment with ?action=<the action> appended.          *)
C34_DeploymentActionsNeedId ==
  [][\A a \in {"approve", "reject", "abort"}, dep \in DepIds :
        _handleCTA(a, dep) =>
          IF ToBoolean(dep) THEN emitted' = {ReleaseRoute(a)}
          ELSE emitted' = {}]_vars

\* a click on Reject with a deployment id has just been handled
C34_Witness ==
  /\ attached = "connected"
  /\ emitted = {"facets-navigate:{base}/releases/{dep}?action=reject"}

\* sc.pulse of the descriptor the state classifies as
Pulses(s) == Flag(_stateConf(s), "pulse")
\* the header action table gives the state the empty action set
NoActions(s) == _headerCTAs(s, env) = CTAs(<< >>)

(* C35: the three state tables agree. For every cluster state (listed,     *)
(* unlisted or inherited name) and for the state of the loaded cluster,    *)
(* the status descriptor pulses iff the state is one of the four that keep *)
(* polling on by cluster state, iff the header action table gives it the   *)
(* empty action set.                                                       *)
C35_TablesAgree ==
  /\ \A s \in ViewStates :
       /\ Pulses(s) <=> s \in activeStates
       /\ s \in activeStates <=> NoActions(s)
  /\ Pulses(HeaderState(env)) <=> StateOf(env) \in activeStates
  /\ StateOf(env) \in activeStates <=> NoActions(HeaderState(env))

\* a loaded cluster in a transitional state: pulsing dot, timer started by
\* the state alone, no header action
C35_Witness ==
  /\ Ready /\ StateOf(env) = "SCALING_UP" /\ ~InProgress(overview)
  /\ TimerRunning
  /\ Pulses("SCALING_UP") /\ NoActions("SCALING_UP")

\* a loaded cluster in a state no table lists: steady dot, no polling by
\* state, and a non-empty action set
C35_WitnessUnlisted ==
  /\ Ready /\ StateOf(env) = "PAUSED"
  /\ ~Pulses("PAUSED") /\ ~NoActions("PAUSED") /\ ~TimerRunning

(* C36: for a loaded cluster whose state the header action table does not  *)
(* list (UNKNOWN, used when the overview or its cluster is absent or has   *)
(* no state, included), the header offers the actions of the STOPPED       *)
(* state, Launch and Run Plan, and not an empty set.                       *)
C36_UnlistedGetsStoppedActions ==
  HeaderState(env) \notin DOMAIN headerMaps =>
    _headerCTAs(HeaderState(env), env) = CTAs(<<"launch", "plan">>)

\* unlisted states that do get the STOPPED actions: no cluster at all, and
\* a cluster in a state no table lists
C36_AbsentGetsStoppedActions ==
  /\ ~isLoading /\ tabsRendered /\ env = NoObj /\ overview = NoObj
  /\ HeaderState(env) = "UNKNOWN"
  /\ _headerCTAs(HeaderState(env), env) = CTAs(<<"launch", "plan">>)

(* C1: within one session (no hard reload), a lazy tab's fetch set is      *)
(* issued at most once: a tab selection issues it only if it was not       *)
(* issued before in the session.                                           *)
C1_LazyFetchAtMostOnce ==
  [][\A tab \in LazyTabs :
        (_switchTab(tab) /\ Issues(tab)) => tab \notin fetched]_vars

(* C2: the response to a request issued before a hard reload began never   *)
(* overwrites overview, env, stats, counts or a tab cache entry.           *)
C2_NoStaleOverwrite ==
  [][\A t \in BagToSet(tasks) :
        (t.stale /\ Done(t)) => UNCHANGED cacheVars]_vars

(* C3: when the load of a hard reload completes and the active tab is a    *)
(* lazy tab, that tab's fetch set has been re-issued since the reload      *)
(* began; and a lazy fetch set is only ever issued by selecting its tab.   *)
C3_ReloadRefetchesActiveTab ==
  [][/\ \A t \in BagToSet(tasks) :
          (t.from = "reload" /\ ~t.stale /\ LoadDoneOf(t) /\ activeTab \in LazyTabs)
             => activeTab \in fetched'
     /\ \A tab \in LazyTabs :
          (tab \in fetched' /\ tab \notin fetched) => activeTab' = tab]_vars

(* C4: a refresh timer runs only while pollingActive of the current        *)
(* overview is true.                                                       *)
C4_TimerOnlyWhilePolling == TimerRunning => pollingActive(overview)

(* C5: after teardown no refresh timer of the instance is running.         *)
C5_NoTimerAfterTeardown == attached = "disconnected" => ~TimerRunning

(* C6: when the critical phase of a load completes, a timer is started     *)
(* (setInterval is called) iff pollingActive of the just-loaded overview   *)
(* is true.                                                                *)
C6_StartIffPollingActive ==
  JustLoaded => (("setInterval" \in emitted) <=> pollingActive(overview))

C6_Witness ==
  /\ JustLoaded /\ "setInterval" \in emitted
  /\ overview # NoObj /\ StateOf(env) = "LAUNCHING" /\ ~overview.inProgress
  /\ TimerRunning

(* C7: after a tick has completed, if pollingActive of the current         *)
(* overview is false then no timer is running and the handle is cleared;   *)
(* in particular a tick whose fetched overview yields pollingActive false  *)
(* stops the timer in that tick.                                           *)
C7_StopsWithinOneTick ==
  [][\A t \in BagToSet(tasks) :
        ((\E fresh \in Overviews \cup {NoObj} : tickDone(t, fresh))
           /\ ~pollingActive(overview'))
        => (liveTimers' = 0 /\ refreshTimer' = "null")]_vars

(* C8: at most one interval timer is running, and when one is running the  *)
(* handle refreshTimer refers to it.                                       *)
C8_AtMostOneTimer ==
  /\ liveTimers <= 1
  /\ liveTimers = 1 => refreshTimer = "live"

\* a load completed and started a timer while the previous one was running
\* (its tick is still in flight)
C8_Witness ==
  /\ JustLoaded /\ "setInterval" \in emitted
  /\ attached = "connected" /\ InFlight({"tick"}) > 0
  /\ liveTimers = 1

(* C9 as stated: in every Ready state overview is non-null.                *)
C9_ReadyImpliesOverview == Ready => overview # NoObj

(* C9 as amended: a Ready state with a null overview is entered only by    *)
(* the completion of a load whose overview fetch returned absent; no other *)
(* step (tick, tab, secondary, reload, teardown) leads into one.           *)
C9_ReadyNullOnlyByAbsentFetch ==
  [][(Ready' /\ overview' = NoObj) =>
        \/ Ready /\ overview = NoObj
        \/ \E t \in BagToSet(tasks), r \in CriticalResults :
              r[1] = NoObj /\ loadDone(t, r[1], r[2][1], r[2][2])]_vars

C9_Witness == Ready /\ overview = NoObj /\ JustLoaded

(* C10: Failed is reached only through failure of identity resolution, and *)
(* in every Failed state overview is null.                                 *)
C10_FailedImpliesNoOverview == Failed => overview = NoObj

\* the first half of C10 on its own: error is set only by a failed resolution
C10_FailedOnlyByResolveFailure ==
  [][(error' # NULL /\ error = NULL) =>
        \E t \in BagToSet(tasks) : resolveDone(t, "fail")]_vars

====
